---- MODULE Spec2Model ----
(***************************************************************************)
(* TheatreMix DCA cue generation (src/src/theatremix/dca.py).              *)
(*                                                                         *)
(* generate_dca_cues walks the elements of a parsed script once and keeps  *)
(* the set of unmuted characters, their DCA slots and the running slot     *)
(* snapshot; one step of the walk is one action of this module.            *)
(*                                                                         *)
(* A Python str is a sequence of one-character strings, so that the        *)
(* normaliser (regex removal, split, title-casing), strip, truncation and  *)
(* the cue-name formatting are computed as the code computes them.         *)
(***************************************************************************)
EXTENDS Integers, Sequences, FiniteSets, TLC

VARIABLES
    script,               \* script.elements: the sequence of typed elements
    character_channels,   \* the mapping get_character_channels returns
    max_dialogues_ahead,  \* the lookahead window
    i,                    \* index of the element the walk processes next
    cues,
    active_mics,
    dca_assignments,
    available_dcas,
    page,
    cue_number,
    current_dca_state,
    stored_cues,          \* the rows of the cues table, in insertion order
    has_primary_key,      \* whether the cues table constrains (number, point)
    add_cue_calls,        \* the calls of CueDatabase.add_cue in progress
    edit_calls,           \* the calls of update_cue and delete_cue in progress
    returned              \* what the finished calls of add_cue returned

\* What one run of generate_dca_cues reads and writes.
walk_vars == <<script, character_channels, max_dialogues_ahead, i, cues, active_mics,
               dca_assignments, available_dcas, page, cue_number, current_dca_state>>

\* What CueDatabase keeps and hands back.
store_vars == <<stored_cues, has_primary_key, add_cue_calls, edit_calls, returned>>

vars == <<script, character_channels, max_dialogues_ahead, i, cues, active_mics,
          dca_assignments, available_dcas, page, cue_number, current_dca_state,
          stored_cues, has_primary_key, add_cue_calls, edit_calls, returned>>

-----------------------------------------------------------------------------
(* Python values *)

\* Python's None: a sequence no str equals (a str holds one-character strings only).
None == <<"None">>

\* str(None) as an f-string prints it.
NoneText == <<"N", "o", "n", "e">>

UpperLetters ==
    <<"A", "B", "C", "D", "E", "F", "G", "H", "I", "J", "K", "L", "M",
      "N", "O", "P", "Q", "R", "S", "T", "U", "V", "W", "X", "Y", "Z">>

LowerLetters ==
    <<"a", "b", "c", "d", "e", "f", "g", "h", "i", "j", "k", "l", "m",
      "n", "o", "p", "q", "r", "s", "t", "u", "v", "w", "x", "y", "z">>

DigitChars == <<"0", "1", "2", "3", "4", "5", "6", "7", "8", "9">>

\* Printable ASCII characters by code point: 35..47, 58..64 and 123..126.
Punctuation35 == <<"#", "$", "%", "&", "'", "(", ")", "*", "+", ",", "-", ".", "/">>

Punctuation58 == <<":", ";", "<", "=", ">", "?", "@">>

Punctuation123 == <<"{", "|", "}", "~">>

Range(s) == {s[k] : k \in 1..Len(s)}

IndexIn(c, s) == CHOOSE k \in 1..Len(s) : s[k] = c

UpperSet == Range(UpperLetters)

LowerSet == Range(LowerLetters)

DigitSet == Range(DigitChars)

SpaceSet == {" ", "\t", "\n", "\r", "\f"}

IsUpper(c) == c \in UpperSet

IsLower(c) == c \in LowerSet

IsDigit(c) == c \in DigitSet

IsSpace(c) == c \in SpaceSet

\* ord(c)
Ord(c) ==
    CASE c = "\t" -> 9
      [] c = "\n" -> 10
      [] c = "\f" -> 12
      [] c = "\r" -> 13
      [] c = " " -> 32
      [] c = "!" -> 33
      [] c \in Range(Punctuation35) -> 34 + IndexIn(c, Punctuation35)
      [] IsDigit(c) -> 47 + IndexIn(c, DigitChars)
      [] c \in Range(Punctuation58) -> 57 + IndexIn(c, Punctuation58)
      [] IsUpper(c) -> 64 + IndexIn(c, UpperLetters)
      [] c = "[" -> 91
      [] c = "]" -> 93
      [] c = "^" -> 94
      [] c = "_" -> 95
      [] IsLower(c) -> 96 + IndexIn(c, LowerLetters)
      [] c \in Range(Punctuation123) -> 122 + IndexIn(c, Punctuation123)

ToUpper(c) == IF IsLower(c) THEN UpperLetters[IndexIn(c, LowerLetters)] ELSE c

ToLower(c) == IF IsUpper(c) THEN LowerLetters[IndexIn(c, UpperLetters)] ELSE c

Min(a, b) == IF a < b THEN a ELSE b

Max(a, b) == IF a < b THEN b ELSE a

\* s[:n]
Prefix(s, n) == SubSeq(s, 1, Min(n, Len(s)))

\* s[-n:]  (n > 0)
Suffix(s, n) == SubSeq(s, Max(1, Len(s) - n + 1), Len(s))

\* str.title(): a letter is upper-cased unless the character before it is a letter.
Title(s) ==
    [k \in 1..Len(s) |->
        IF IsUpper(s[k]) \/ IsLower(s[k])
        THEN IF k > 1 /\ (IsUpper(s[k-1]) \/ IsLower(s[k-1]))
             THEN ToLower(s[k])
             ELSE ToUpper(s[k])
        ELSE s[k]]

\* str.strip()
Strip(s) ==
    LET keep == {k \in 1..Len(s) : ~IsSpace(s[k])}
    IN  IF keep = {} THEN <<>>
        ELSE SubSeq(s, CHOOSE a \in keep : \A b \in keep : a <= b,
                       CHOOSE a \in keep : \A b \in keep : a >= b)

\* re.sub of the pattern "open paren, any run of non-close-paren characters, close
\* paren" by '': each "(" with a ")" after it is removed with everything up to the
\* first such ")".
RECURSIVE RemoveParens(_)
RemoveParens(s) ==
    IF s = <<>> THEN <<>>
    ELSE LET closing == {k \in 2..Len(s) : s[k] = ")"}
         IN  IF Head(s) = "(" /\ closing # {}
             THEN RemoveParens(SubSeq(s, 1 + (CHOOSE k \in closing : \A m \in closing : k <= m),
                                      Len(s)))
             ELSE <<Head(s)>> \o RemoveParens(Tail(s))

Separator == <<" ", "&", " ">>

\* s.split(' & ')
RECURSIVE SplitOnSeparator(_)
SplitOnSeparator(s) ==
    LET hits == {k \in 1..(Len(s) - 2) : SubSeq(s, k, k + 2) = Separator}
    IN  IF hits = {} THEN <<s>>
        ELSE LET k == CHOOSE a \in hits : \A b \in hits : a <= b
             IN  <<SubSeq(s, 1, k - 1)>> \o SplitOnSeparator(SubSeq(s, k + 3, Len(s)))

\* re.search(r'[a-z]', c)
HasLower(s) == \E k \in 1..Len(s) : IsLower(s[k])

split_characters(characters) ==
    LET parts == SplitOnSeparator(RemoveParens(characters))
    IN  [k \in 1..Len(parts) |->
            IF HasLower(parts[k]) THEN parts[k] ELSE Title(parts[k])]

\* str < str, by code points
RECURSIVE StrLess(_, _)
StrLess(a, b) ==
    IF b = <<>> THEN FALSE
    ELSE IF a = <<>> THEN TRUE
    ELSE IF Head(a) = Head(b) THEN StrLess(Tail(a), Tail(b))
    ELSE Ord(Head(a)) < Ord(Head(b))

\* sorted(S) of a set of str
RECURSIVE Sorted(_)
Sorted(S) ==
    IF S = {} THEN <<>>
    ELSE LET m == CHOOSE x \in S : \A y \in S \ {x} : StrLess(x, y)
         IN  <<m>> \o Sorted(S \ {m})

\* sep.join(parts)
RECURSIVE Join(_, _)
Join(sep, parts) ==
    IF parts = <<>> THEN <<>>
    ELSE IF Len(parts) = 1 THEN parts[1]
    ELSE parts[1] \o sep \o Join(sep, Tail(parts))

\* str(n) for n >= 0
RECURSIVE IntText(_)
IntText(n) ==
    IF n < 10 THEN <<DigitChars[n + 1]>>
    ELSE IntText(n \div 10) \o <<DigitChars[(n % 10) + 1]>>

\* int(s) of a run of digits
RECURSIVE IntOf(_)
IntOf(s) ==
    IF s = <<>> THEN 0
    ELSE 10 * IntOf(SubSeq(s, 1, Len(s) - 1)) + (IndexIn(s[Len(s)], DigitChars) - 1)

\* what an f-string prints for a str or None
Text(x) == IF x = None THEN NoneText ELSE x

PagePrefix == <<"P", "a", "g", "e", " ">>

\* re.match(r'^Page \d+$', text): "$" also matches before one trailing newline.
IsPageMarker(text) ==
    LET body == IF text # <<>> /\ text[Len(text)] = "\n"
                THEN SubSeq(text, 1, Len(text) - 1) ELSE text
    IN  /\ Len(body) > Len(PagePrefix)
        /\ SubSeq(body, 1, Len(PagePrefix)) = PagePrefix
        /\ \A k \in (Len(PagePrefix) + 1)..Len(body) : IsDigit(body[k])

\* int(re.search(r'\d+', text).group()) for a text IsPageMarker accepts
PageOf(text) ==
    LET first == Len(PagePrefix) + 1
        stop == CHOOSE k \in first..(Len(text) + 1) :
                    /\ \A m \in first..(k - 1) : IsDigit(text[m])
                    /\ (k = Len(text) + 1 \/ ~IsDigit(text[k]))
    IN  IntOf(SubSeq(text, first, stop - 1))

-----------------------------------------------------------------------------
(* Program constants *)

\* DCAs 1-12: set(range(1, 13))
NumDCAs == 12

\* character.strip()[:12]
LabelLimit == 12

\* get_line_preview_start(remaining_script, 30), get_line_preview_end(..., 30)
PreviewLength == 30

\* max_dialogues_ahead: int = 7
DefaultWindow == 7

DCAs == 1..NumDCAs

Element(type, text) == [element_type |-> type, element_text |-> text]

\* dict.get(key, default)
Get(map, key, default) == IF key \in DOMAIN map THEN map[key] ELSE default

\* truth value of a str or None
Truthy(x) == x # None /\ x # <<>>

-----------------------------------------------------------------------------
(* speaks_within *)

\* A slip the loop of speaks_within could have: a character counts as live when
\* the book ends before the window does.
RECURSIVE speaks_within_live_at_end(_, _, _, _, _, _)
speaks_within_live_at_end(book, character, n, k, dialogues, first_skipped) ==
    IF k > Len(book) THEN TRUE
    ELSE IF dialogues >= n THEN FALSE
    ELSE IF book[k].element_type = "Scene Heading" THEN FALSE
    ELSE IF book[k].element_type = "Character"
         THEN IF ~first_skipped
              THEN speaks_within_live_at_end(book, character, n, k + 1, dialogues, TRUE)
              ELSE IF character \in Range(split_characters(book[k].element_text))
                   THEN TRUE
                   ELSE speaks_within_live_at_end(book, character, n, k + 1,
                                                  dialogues + 1, first_skipped)
         ELSE speaks_within_live_at_end(book, character, n, k + 1, dialogues,
                                        first_skipped)

\* A slip the loop of speaks_within could have: a Scene Heading does not end the
\* search.
RECURSIVE speaks_within_through_scenes(_, _, _, _, _, _)
speaks_within_through_scenes(book, character, n, k, dialogues, first_skipped) ==
    IF k > Len(book) THEN FALSE
    ELSE IF dialogues >= n THEN FALSE
    ELSE IF book[k].element_type = "Character"
         THEN IF ~first_skipped
              THEN speaks_within_through_scenes(book, character, n, k + 1, dialogues,
                                                TRUE)
              ELSE IF character \in Range(split_characters(book[k].element_text))
                   THEN TRUE
                   ELSE speaks_within_through_scenes(book, character, n, k + 1,
                                                     dialogues + 1, first_skipped)
         ELSE speaks_within_through_scenes(book, character, n, k + 1, dialogues,
                                           first_skipped)

\* The loop of speaks_within from element k of book on.
RECURSIVE speaks_within_from(_, _, _, _, _, _)
speaks_within_from(book, character, n, k, dialogues, first_skipped) ==
    IF k > Len(book) THEN FALSE
    ELSE IF dialogues >= n THEN FALSE
    ELSE IF book[k].element_type = "Scene Heading" THEN FALSE
    ELSE IF book[k].element_type = "Character"
         THEN IF ~first_skipped
              THEN speaks_within_from(book, character, n, k + 1, dialogues, TRUE)
              ELSE IF character \in Range(split_characters(book[k].element_text))
                   THEN TRUE
                   ELSE speaks_within_from(book, character, n, k + 1, dialogues + 1,
                                           first_skipped)
         ELSE speaks_within_from(book, character, n, k + 1, dialogues, first_skipped)

\* A slip speaks_within could have: the window ends one heading early.
speaks_within_one_short(book, character, n, skip_first) ==
    speaks_within_from(book, character, n - 1, 1, 0, ~skip_first)

speaks_within(book, character, n, skip_first) ==
    speaks_within_from(book, character, n, 1, 0, ~skip_first)

-----------------------------------------------------------------------------
(* line previews *)

Ellipsis == <<".", ".", ".">>

get_line_preview_start(elements, length) ==
    LET at == {k \in 1..Len(elements) : elements[k].element_type = "Dialogue"}
    IN  IF at = {} THEN None
        ELSE LET line == elements[CHOOSE a \in at : \A b \in at : a <= b].element_text
             IN  IF Len(line) > length THEN Prefix(line, length) \o Ellipsis ELSE line

get_line_preview_end(elements, length) ==
    LET at == {k \in 1..Len(elements) : elements[k].element_type = "Dialogue"}
    IN  IF at = {} THEN None
        ELSE LET line == elements[CHOOSE a \in at : \A b \in at : a >= b].element_text
             IN  IF Len(line) > length THEN Ellipsis \o Suffix(line, length) ELSE line

-----------------------------------------------------------------------------
(* cues *)

\* A slip Cue(...) could have: number is left out and takes the default of the
\* Cue model.
NewCueDefaultNumber(number, name) ==
    [number |-> 999, point |-> 0, name |-> name,
     channels |-> [d \in DCAs |-> None],
     labels |-> [d \in DCAs |-> None]]

\* Cue(number=..., point=0, name=...): every dcaNNChannels and dcaNNLabel is None.
NewCue(number, name) ==
    [number |-> number, point |-> 0, name |-> name,
     channels |-> [d \in DCAs |-> None],
     labels |-> [d \in DCAs |-> None]]

\* A slip CopyState could have: nothing is copied, so that a cue carries only the
\* DCAs its own unmutes and mutes write.
CopyNothing(cue, state) == cue

\* "Copy all current DCA states to this cue": only the values that are not None.
CopyState(cue, state) ==
    [cue EXCEPT
        !.channels = [d \in DCAs |-> IF state.channels[d] # None
                                     THEN state.channels[d] ELSE cue.channels[d]],
        !.labels = [d \in DCAs |-> IF state.labels[d] # None
                                   THEN state.labels[d] ELSE cue.labels[d]]]

\* A slip cues.append could have: the cue takes the place of the cue emitted last,
\* as it would were one Cue object filled in again and again.
EmitOverLast(list, cue) ==
    IF list = <<>> THEN <<cue>> ELSE [list EXCEPT ![Len(list)] = cue]

\* A slip cues.append could have: the cue is appended once for its unmutes and
\* once more for its mutes.
EmitTwice(list, cue) == Append(Append(list, cue), cue)

\* cues.append(cue)
Emit(list, cue) == Append(list, cue)

\* The allocator's state while one cue is being filled in.
Working(cue) ==
    [cue |-> cue, state |-> current_dca_state, available |-> available_dcas,
     assignments |-> dca_assignments, active |-> active_mics]

\* One iteration of "Apply all unmute changes".
ApplyUnmute(w, channels, character) ==
    LET dca_num == w.assignments[character]
        channel == Get(channels, character, None)
    IN  IF Truthy(channel)
        THEN [w EXCEPT !.cue.channels[dca_num] = channel,
                       !.state.channels[dca_num] = channel,
                       !.cue.labels[dca_num] = character,
                       !.state.labels[dca_num] = character]
        ELSE [w EXCEPT !.cue.labels[dca_num] = character,
                       !.state.labels[dca_num] = character]

\* A slip ApplyMute could have: the DCA of the muted character is not put back
\* into available_dcas.
ApplyMuteKeepingSlot(w, channels, character) ==
    LET dca_num == w.assignments[character]
        channel == Get(channels, character, <<>>)
        cleared == IF Truthy(channel)
                   THEN [w EXCEPT !.cue.channels[dca_num] = None,
                                  !.state.channels[dca_num] = None]
                   ELSE w
    IN  [cleared EXCEPT
            !.cue.labels[dca_num] = None,
            !.state.labels[dca_num] = None,
            !.assignments = [c \in (DOMAIN @) \ {character} |-> @[c]],
            !.active = @ \ {character}]

\* One iteration of "Apply all mute changes" (the same code at a scene heading and
\* at a character heading).
ApplyMute(w, channels, character) ==
    LET dca_num == w.assignments[character]
        channel == Get(channels, character, <<>>)
        cleared == IF Truthy(channel)
                   THEN [w EXCEPT !.cue.channels[dca_num] = None,
                                  !.state.channels[dca_num] = None]
                   ELSE w
    IN  [cleared EXCEPT
            !.cue.labels[dca_num] = None,
            !.state.labels[dca_num] = None,
            !.available = @ \cup {dca_num},
            !.assignments = [c \in (DOMAIN @) \ {character} |-> @[c]],
            !.active = @ \ {character}]

RECURSIVE ApplyUnmutes(_, _, _)
ApplyUnmutes(w, channels, characters) ==
    IF characters = <<>> THEN w
    ELSE ApplyUnmutes(ApplyUnmute(w, channels, Head(characters)), channels,
                      Tail(characters))

RECURSIVE ApplyMutes(_, _, _)
ApplyMutes(w, channels, characters) ==
    IF characters = <<>> THEN w
    ELSE ApplyMutes(ApplyMute(w, channels, Head(characters)), channels,
                    Tail(characters))

-----------------------------------------------------------------------------
(* generate_dca_cues: the two decision points *)

\* first_speakers: the stripped names of the first Character element of
\* `elements`, unless a Scene Heading comes before it.
FirstSpeakers(elements) ==
    LET at == {k \in 1..Len(elements) :
                  elements[k].element_type \in {"Character", "Scene Heading"}}
    IN  IF at = {} THEN {}
        ELSE LET first == elements[CHOOSE a \in at : \A b \in at : a <= b]
             IN  IF first.element_type = "Character"
                 THEN {Strip(c) : c \in Range(split_characters(first.element_text))}
                 ELSE {}

\* A slip SceneMuteSet could have: a character that speaks again within the window
\* after the boundary is kept, as the mute pass of a character heading keeps it.
SceneMuteSetKeepingLive(active, elements) ==
    {c \in active \ FirstSpeakers(elements) :
        ~speaks_within(elements, c, DefaultWindow, FALSE)}

\* characters_to_mute = active_mics - first_speakers
SceneMuteSet(active, elements) == active \ FirstSpeakers(elements)

\* f"p{page} -{mute_names}- Scene Change - {get_line_preview_end(...)}"
SceneCueName(pg, characters_to_mute, preview) ==
    <<"p">> \o IntText(pg) \o <<" ", "-">>
    \o Join(<<",", " ">>, Sorted(characters_to_mute))
    \o <<"-", " ", "S", "c", "e", "n", "e", " ", "C", "h", "a", "n", "g", "e", " ",
         "-", " ">>
    \o Text(preview)

\* ', '.join(f'{sign}{char}' for char in characters)
SignedNames(sign, characters) ==
    Join(<<",", " ">>, [k \in 1..Len(characters) |-> <<sign>> \o characters[k]])

\* The three forms of cue_name at a character heading.
CharacterCueName(pg, characters_to_unmute, characters_to_mute, preview) ==
    LET unmute_names == SignedNames("+", characters_to_unmute)
        mute_names == SignedNames("-", characters_to_mute)
        tail == <<":", " ", "\"">> \o Text(preview) \o <<"\"">>
    IN  IF unmute_names # <<>> /\ mute_names # <<>>
        THEN <<"p">> \o IntText(pg) \o <<" ">> \o unmute_names \o <<" ">> \o mute_names
             \o tail
        ELSE IF unmute_names # <<>>
        THEN <<"p">> \o IntText(pg) \o <<" ">> \o unmute_names \o tail
        ELSE <<"p">> \o IntText(pg) \o <<" ">> \o mute_names \o tail

\* A slip Allocate could have: a name that is not active takes the highest
\* available DCA.
AllocateHighest(a, name) ==
    LET character == Prefix(Strip(name), LabelLimit)
    IN  IF character \in a.active THEN a
        ELSE LET dca_num == IF a.available # {}
                            THEN CHOOSE d \in a.available : \A e \in a.available : d >= e
                            ELSE 1
             IN  [active |-> a.active \cup {character},
                  assignments |-> [c \in DOMAIN a.assignments \cup {character} |->
                                      IF c = character THEN dca_num ELSE a.assignments[c]],
                  available |-> IF a.available # {} THEN a.available \ {dca_num}
                                ELSE a.available,
                  to_unmute |-> Append(a.to_unmute, character)]

\* One iteration of "Process each character in this dialogue block": a name that
\* is not active takes the lowest available DCA, or DCA 1 when none is available.
Allocate(a, name) ==
    LET character == Prefix(Strip(name), LabelLimit)
    IN  IF character \in a.active THEN a
        ELSE LET dca_num == IF a.available # {}
                            THEN CHOOSE d \in a.available : \A e \in a.available : d <= e
                            ELSE 1
             IN  [active |-> a.active \cup {character},
                  assignments |-> [c \in DOMAIN a.assignments \cup {character} |->
                                      IF c = character THEN dca_num ELSE a.assignments[c]],
                  available |-> IF a.available # {} THEN a.available \ {dca_num}
                                ELSE a.available,
                  to_unmute |-> Append(a.to_unmute, character)]

RECURSIVE AllocateAll(_, _)
AllocateAll(a, characters) ==
    IF characters = <<>> THEN a
    ELSE AllocateAll(Allocate(a, Head(characters)), Tail(characters))

\* The active characters the mute pass puts on characters_to_mute.
MuteCandidates(active, characters, remaining_script, n) ==
    LET currently_speaking == {Strip(c) : c \in Range(characters)}
    IN  {c \in active : /\ c \notin currently_speaking
                        /\ ~speaks_within(remaining_script, c, n, FALSE)}

\* The orders in which iterating over a set can yield its members.
RECURSIVE Orderings(_)
Orderings(S) ==
    IF S = {} THEN {<<>>}
    ELSE UNION {{<<x>> \o o : o \in Orderings(S \ {x})} : x \in S}

Running == i <= Len(script)

\* A Comment matching the page marker sets page and continues.
ProcessPageComment ==
    /\ Running
    /\ script[i].element_type = "Comment"
    /\ IsPageMarker(script[i].element_text)
    /\ page' = PageOf(script[i].element_text)
    /\ i' = i + 1
    /\ UNCHANGED <<script, character_channels, max_dialogues_ahead, cues, active_mics,
                   dca_assignments, available_dcas, cue_number, current_dca_state>>
    /\ UNCHANGED store_vars

\* Scene Heading: one cue muting every active character that does not speak first.
\* The mutes are applied in the iteration order of a set; what they leave behind
\* does not depend on that order, and the cue name lists the names sorted.
ProcessSceneHeading ==
    /\ Running
    /\ script[i].element_type = "Scene Heading"
    /\ LET characters_to_mute ==
               SceneMuteSet(active_mics, SubSeq(script, i + 1, Len(script)))
           cue == CopyState(
                      NewCue(cue_number,
                             SceneCueName(page, characters_to_mute,
                                 get_line_preview_end(SubSeq(script, 1, i - 1),
                                                      PreviewLength))),
                      current_dca_state)
           w == ApplyMutes(Working(cue), character_channels, Sorted(characters_to_mute))
       IN  IF characters_to_mute # {}
           THEN /\ cues' = Emit(cues, w.cue)
                /\ cue_number' = cue_number + 1
                /\ current_dca_state' = w.state
                /\ available_dcas' = w.available
                /\ dca_assignments' = w.assignments
                /\ active_mics' = w.active
           ELSE UNCHANGED <<cues, cue_number, current_dca_state, available_dcas,
                            dca_assignments, active_mics>>
    /\ i' = i + 1
    /\ UNCHANGED <<script, character_channels, max_dialogues_ahead, page>>
    /\ UNCHANGED store_vars

\* The unmute pass of the character heading at element i.
Allocated ==
    AllocateAll([active |-> active_mics, assignments |-> dca_assignments,
                 available |-> available_dcas, to_unmute |-> <<>>],
                split_characters(script[i].element_text))

\* The set the mute pass of the character heading at element i iterates over and
\* keeps, before any order is imposed on it.
ToMute ==
    MuteCandidates(Allocated.active, split_characters(script[i].element_text),
                   SubSeq(script, i + 1, Len(script)), max_dialogues_ahead)

\* "Create a single cue for all DCA changes in this block": the cue and the state
\* it leaves, when the mute pass met the characters in the order characters_to_mute.
CharacterOutcome(characters_to_mute) ==
    LET a == Allocated
        remaining_script == SubSeq(script, i + 1, Len(script))
        cue == CopyState(
                   NewCue(cue_number,
                          CharacterCueName(page, a.to_unmute, characters_to_mute,
                              get_line_preview_start(remaining_script, PreviewLength))),
                   current_dca_state)
        start == [cue |-> cue, state |-> current_dca_state, available |-> a.available,
                  assignments |-> a.assignments, active |-> a.active]
    IN  ApplyMutes(ApplyUnmutes(start, character_channels, a.to_unmute),
                   character_channels, characters_to_mute)

\* Character heading: the unmute pass, the mute pass and at most one cue.
ProcessCharacter ==
    /\ Running
    /\ script[i].element_type = "Character"
    /\ \E characters_to_mute \in Orderings(ToMute) :
           IF Allocated.to_unmute # <<>> \/ characters_to_mute # <<>>
           THEN LET w == CharacterOutcome(characters_to_mute)
                IN  /\ cues' = Emit(cues, w.cue)
                    /\ cue_number' = cue_number + 1
                    /\ current_dca_state' = w.state
                    /\ available_dcas' = w.available
                    /\ dca_assignments' = w.assignments
                    /\ active_mics' = w.active
           ELSE UNCHANGED <<cues, cue_number, current_dca_state, available_dcas,
                            dca_assignments, active_mics>>
    /\ i' = i + 1
    /\ UNCHANGED <<script, character_channels, max_dialogues_ahead, page>>
    /\ UNCHANGED store_vars

\* Any other element (Dialogue, a Comment that is no page marker, Action, ...)
\* matches none of the branches of the loop body.
ProcessOther ==
    /\ Running
    /\ script[i].element_type \notin {"Scene Heading", "Character"}
    /\ ~(script[i].element_type = "Comment" /\ IsPageMarker(script[i].element_text))
    /\ i' = i + 1
    /\ UNCHANGED <<script, character_channels, max_dialogues_ahead, cues, active_mics,
                   dca_assignments, available_dcas, page, cue_number, current_dca_state>>
    /\ UNCHANGED store_vars

Next ==
    \/ ProcessPageComment
    \/ ProcessSceneHeading
    \/ ProcessCharacter
    \/ ProcessOther

-----------------------------------------------------------------------------
(* CueDatabase (src/src/theatremix/db.py): the cues table *)

\* An Optional[int]: <<>> is None and <<v>> is the int v.
Given(argument) == argument # <<>>

\* func.max over a column: the largest value, None (SQL NULL) for no rows.
SqlMax(values) ==
    IF values = {} THEN <<>> ELSE <<CHOOSE v \in values : \A u \in values : u <= v>>

\* A slip get_next_cue_number could have: the largest point itself is handed out.
get_next_cue_number_without_step(rows) ==
    LET numbers == {rows[k].number : k \in 1..Len(rows)}
        points == {rows[k].point : k \in 1..Len(rows)}
        max_num == IF Given(SqlMax(numbers)) THEN SqlMax(numbers)[1] ELSE 0
        max_point == IF Given(SqlMax(points)) THEN SqlMax(points)[1] ELSE 0
    IN  <<max_num, max_point>>

\* (max_num, max_point + 10) over the rows of the cues table
get_next_cue_number(rows) ==
    LET numbers == {rows[k].number : k \in 1..Len(rows)}
        points == {rows[k].point : k \in 1..Len(rows)}
        max_num == IF Given(SqlMax(numbers)) THEN SqlMax(numbers)[1] ELSE 0
        max_point == IF Given(SqlMax(points)) THEN SqlMax(points)[1] ELSE 0
    IN  <<max_num, max_point + 10>>

\* The (number, point) of the row a call in progress is about to insert.
KeyOf(call) == [number |-> call.number, point |-> call.point]

\* The table refuses a row whose (number, point) it already holds.
Refused(call) == has_primary_key /\ KeyOf(call) \in Range(stored_cues)

\* Most rows the cues table grows to.
MaxRows == 3

\* Most calls of add_cue that return.
MaxCalls == 3

\* add_cue down to the end of "if number is None or point is None": a number or a
\* point that was not given takes the value get_next_cue_number read.
AddCueRead(caller, number, point) ==
    /\ caller \notin DOMAIN add_cue_calls \cup DOMAIN edit_calls
    /\ Len(stored_cues) + Cardinality(DOMAIN add_cue_calls) < MaxRows
    /\ Len(returned) + Cardinality(DOMAIN add_cue_calls) < MaxCalls
    /\ LET auto == get_next_cue_number(stored_cues)
           call == [number |-> IF Given(number) THEN number[1] ELSE auto[1],
                    point |-> IF Given(point) THEN point[1] ELSE auto[2],
                    point_given |-> Given(point)]
       IN  add_cue_calls' = [c \in DOMAIN add_cue_calls \cup {caller} |->
                                IF c = caller THEN call ELSE add_cue_calls[c]]
    /\ UNCHANGED <<stored_cues, has_primary_key, edit_calls, returned>>
    /\ UNCHANGED walk_vars

\* The rest of add_cue: the Cue is built, added, committed, and point is returned.
AddCueInsert(caller) ==
    /\ caller \in DOMAIN add_cue_calls
    /\ ~Refused(add_cue_calls[caller])
    /\ stored_cues' = Append(stored_cues, KeyOf(add_cue_calls[caller]))
    /\ returned' = Append(returned, [point |-> add_cue_calls[caller].point,
                                     point_given |-> add_cue_calls[caller].point_given])
    /\ add_cue_calls' = [c \in DOMAIN add_cue_calls \ {caller} |-> add_cue_calls[c]]
    /\ UNCHANGED <<has_primary_key, edit_calls>>
    /\ UNCHANGED walk_vars

\* The rest of add_cue when the commit raises IntegrityError: nothing is stored
\* and nothing is returned.
AddCueRefused(caller) ==
    /\ caller \in DOMAIN add_cue_calls
    /\ Refused(add_cue_calls[caller])
    /\ add_cue_calls' = [c \in DOMAIN add_cue_calls \ {caller} |-> add_cue_calls[c]]
    /\ UNCHANGED <<stored_cues, has_primary_key, edit_calls, returned>>
    /\ UNCHANGED walk_vars

\* The positions of the rows select(Cue).where(Cue.point == point) yields; first()
\* takes one of them, and the query names no order.
RowsAt(point) == {k \in 1..Len(stored_cues) : stored_cues[k].point = point}

\* The positions of the rows a statement of the session addresses when it writes
\* an object it loaded: the rows that have the object's (number, point).
RowsLike(key) == {j \in 1..Len(stored_cues) : stored_cues[j] = key}

\* The table without the rows at the given positions.
RECURSIVE WithoutRows(_, _)
WithoutRows(rows, positions) ==
    IF rows = <<>> THEN <<>>
    ELSE LET front == WithoutRows(SubSeq(rows, 1, Len(rows) - 1), positions)
         IN  IF Len(rows) \in positions THEN front
             ELSE Append(front, rows[Len(rows)])

\* The caller is inside none of the calls.
Idle(caller) == caller \notin DOMAIN add_cue_calls \cup DOMAIN edit_calls

\* The call in progress leaves edit_calls.
EditReturns(caller) ==
    edit_calls' = [c \in DOMAIN edit_calls \ {caller} |-> edit_calls[c]]

\* The call in progress enters edit_calls with the cue it loaded.
EditHolds(caller, method, key, number) ==
    edit_calls' = [c \in DOMAIN edit_calls \cup {caller} |->
                      IF c = caller
                      THEN [method |-> method, key |-> key, number |-> number]
                      ELSE edit_calls[c]]

\* delete_cue(point) down to "if cue:": the first cue at the point is loaded; the
\* call returns at once when there is none.
DeleteCueRead(caller, point) ==
    /\ Idle(caller)
    /\ \/ /\ RowsAt(point) = {}
          /\ UNCHANGED edit_calls
       \/ \E k \in RowsAt(point) :
              EditHolds(caller, "delete_cue", stored_cues[k], stored_cues[k].number)
    /\ UNCHANGED <<stored_cues, has_primary_key, add_cue_calls, returned>>
    /\ UNCHANGED walk_vars

\* The rest of delete_cue: the DELETE for the loaded cue and the commit. The
\* statement addresses the cue by its (number, point); when it matches no row or
\* several rows the session warns and commits what was matched.
DeleteCueWrite(caller) ==
    /\ caller \in DOMAIN edit_calls
    /\ edit_calls[caller].method = "delete_cue"
    /\ stored_cues' = WithoutRows(stored_cues, RowsLike(edit_calls[caller].key))
    /\ EditReturns(caller)
    /\ UNCHANGED <<has_primary_key, add_cue_calls, returned>>
    /\ UNCHANGED walk_vars

\* update_cue(point, number=number) down to "if cue:": the first cue at the point
\* is loaded; the call returns at once when there is none.
UpdateCueRead(caller, point, number) ==
    /\ Idle(caller)
    /\ \/ /\ RowsAt(point) = {}
          /\ UNCHANGED edit_calls
       \/ \E k \in RowsAt(point) :
              EditHolds(caller, "update_cue", stored_cues[k], number)
    /\ UNCHANGED <<stored_cues, has_primary_key, add_cue_calls, returned>>
    /\ UNCHANGED walk_vars

\* The UPDATE of the call in progress cannot be committed: it addresses the
\* loaded cue by its (number, point) and matches no row or several rows
\* (StaleDataError), or the table refuses the new (number, point)
\* (IntegrityError). No statement is issued when the number is the one the
\* loaded cue has.
UpdateFails(call) ==
    /\ call.key.number # call.number
    /\ \/ Cardinality(RowsLike(call.key)) # 1
       \/ Refused([number |-> call.number, point |-> call.key.point])

\* The rest of update_cue when the commit succeeds: the loaded cue gets the
\* number.
UpdateCueWrite(caller) ==
    /\ caller \in DOMAIN edit_calls
    /\ edit_calls[caller].method = "update_cue"
    /\ ~UpdateFails(edit_calls[caller])
    /\ stored_cues' = [k \in 1..Len(stored_cues) |->
                          IF /\ stored_cues[k] = edit_calls[caller].key
                             /\ edit_calls[caller].key.number # edit_calls[caller].number
                          THEN [stored_cues[k] EXCEPT !.number = edit_calls[caller].number]
                          ELSE stored_cues[k]]
    /\ EditReturns(caller)
    /\ UNCHANGED <<has_primary_key, add_cue_calls, returned>>
    /\ UNCHANGED walk_vars

\* The rest of update_cue when the commit raises: the table stays as it was.
UpdateCueRaises(caller) ==
    /\ caller \in DOMAIN edit_calls
    /\ edit_calls[caller].method = "update_cue"
    /\ UpdateFails(edit_calls[caller])
    /\ EditReturns(caller)
    /\ UNCHANGED <<stored_cues, has_primary_key, add_cue_calls, returned>>
    /\ UNCHANGED walk_vars

-----------------------------------------------------------------------------
(* Inputs: scripts, channel maps and windows *)

\* Longest script of the general family.
MaxScriptLen == 4

\* Longest continuation after the A, B, A scenario.
MaxSuffixLen == 2

\* Longest script of the family with thirteen-name headings.
MaxWideLen == 3

\* Longest script of the family with a name longer than a DCA label.
MaxLongLen == 3

\* Longest script of the family with odd comments and headings.
MaxOddLen == 3

\* Largest lookahead window of the general and the wide family.
MaxWindow == 2

SeqsUpTo(S, n) == UNION {[1..k -> S] : k \in 0..n}

HeadingAl == <<"A", "L">>

HeadingBo == <<"B", "O">>

HeadingCy == <<"C", "Y">>

HeadingAlBo == HeadingAl \o Separator \o HeadingBo

HeadingBoVO == HeadingBo \o <<" ", "(", "V", ".", "O", ".", ")">>

\* A name of 18 characters, longer than a DCA label.
HeadingLong ==
    <<"A", "L", "O", "N", "G", "C", "H", "A", "R", "A", "C", "T", "E", "R", "N", "A",
      "M", "E">>

\* "A & B & ... " over the first n letters
RECURSIVE HeadingOfLetters(_)
HeadingOfLetters(n) ==
    IF n = 1 THEN <<UpperLetters[1]>>
    ELSE HeadingOfLetters(n - 1) \o Separator \o <<UpperLetters[n]>>

HeadingThirteen == HeadingOfLetters(NumDCAs + 1)

HeadingTwelve == HeadingOfLetters(NumDCAs)

SceneElement == Element("Scene Heading", <<"I", "N", "T", ".">>)

DialogueElement == Element("Dialogue", <<"h", "i">>)

PageElement == Element("Comment", <<"P", "a", "g", "e", " ", "2">>)

NoteElement == Element("Comment", <<"n", "b">>)

CharacterElement(heading) == Element("Character", heading)

\* Three one-name headings with dialogue, page markers and scene headings.
PlainElements ==
    {SceneElement, DialogueElement, PageElement}
    \cup {CharacterElement(h) : h \in {HeadingAl, HeadingBo, HeadingCy}}

\* Headings that name two characters or carry a parenthetical.
HeadingElements ==
    {SceneElement}
    \cup {CharacterElement(h) : h \in {HeadingAl, HeadingCy, HeadingAlBo, HeadingBoVO}}

GeneralScripts ==
    SeqsUpTo(PlainElements, MaxScriptLen) \cup SeqsUpTo(HeadingElements, MaxScriptLen)

WideElements ==
    {SceneElement, DialogueElement, PageElement,
     CharacterElement(HeadingThirteen), CharacterElement(HeadingTwelve)}

\* Page markers with two digits, one of them with a newline after the digits.
PageTwelveElement == Element("Comment", PagePrefix \o <<"1", "2">>)

PageNewlineElement == Element("Comment", PagePrefix \o <<"1", "2", "\n">>)

\* A heading with no text, and one that is a parenthetical only.
HeadingEmpty == <<>>

HeadingAside == <<"(", "x", ")">>

\* Comments of three kinds, and headings that leave the normaliser nothing.
OddElements ==
    {SceneElement, DialogueElement, NoteElement, PageTwelveElement, PageNewlineElement,
     CharacterElement(HeadingAl), CharacterElement(HeadingEmpty),
     CharacterElement(HeadingAside)}

\* One-name headings, one of them longer than a DCA label.
LongElements ==
    {SceneElement, DialogueElement, PageElement,
     CharacterElement(HeadingAl), CharacterElement(HeadingLong)}

\* Character A, Dialogue, Character B, Dialogue, Character A, Dialogue
ScenarioABA ==
    <<CharacterElement(HeadingAl), DialogueElement, CharacterElement(HeadingBo),
      DialogueElement, CharacterElement(HeadingAl), DialogueElement>>

ScenarioElements ==
    {SceneElement, DialogueElement, PageElement, NoteElement,
     CharacterElement(HeadingAl), CharacterElement(HeadingCy)}

NameAl == <<"A", "l">>

NameBo == <<"B", "o">>

\* An individual profile, an ensemble, and names with no entry.
ChannelMapOne ==
    [c \in {NameAl, NameBo, <<"A">>, <<"B">>, <<"M">>} |->
        CASE c = NameAl -> <<"1">>
          [] c = NameBo -> <<"2", ",", "3">>
          [] c = <<"A">> -> <<"1">>
          [] c = <<"B">> -> <<"2", ",", "3">>
          [] c = <<"M">> -> <<"1", "3">>]

\* An empty entry, and other names with no entry.
ChannelMapTwo ==
    [c \in {NameAl, NameBo, <<"A">>} |->
        CASE c = NameAl -> <<>>
          [] c = NameBo -> <<"5">>
          [] c = <<"A">> -> <<"4">>]

ChannelMaps == {ChannelMapOne, ChannelMapTwo}

\* The state generate_dca_cues sets up before the loop (i counts from 1).
InitAllocator ==
    /\ i = 1
    /\ cues = <<>>
    /\ active_mics = {}
    /\ dca_assignments = [c \in {} |-> 1]
    /\ available_dcas = DCAs
    /\ page = 0
    /\ cue_number = 1
    /\ current_dca_state = [channels |-> [d \in DCAs |-> None],
                            labels |-> [d \in DCAs |-> None]]

\* A run of generate_dca_cues that stores nothing.
NoStore ==
    /\ stored_cues = <<>>
    /\ has_primary_key = TRUE
    /\ add_cue_calls = [c \in {} |-> 0]
    /\ edit_calls = [c \in {} |-> 0]
    /\ returned = <<>>

Init ==
    /\ script \in GeneralScripts
    /\ character_channels \in ChannelMaps
    /\ max_dialogues_ahead \in 1..MaxWindow
    /\ InitAllocator
    /\ NoStore

InitScenario ==
    /\ script \in {ScenarioABA \o t : t \in SeqsUpTo(ScenarioElements, MaxSuffixLen)}
    /\ character_channels \in ChannelMaps
    /\ max_dialogues_ahead = DefaultWindow
    /\ InitAllocator
    /\ NoStore

InitWide ==
    /\ script \in SeqsUpTo(WideElements, MaxWideLen)
    /\ character_channels \in ChannelMaps
    /\ max_dialogues_ahead \in 1..MaxWindow
    /\ InitAllocator
    /\ NoStore

\* Most rows the cues table holds before the first call of add_cue.
MaxStored == 1

\* The number and point arguments of add_cue: not given, or an int.
NumberArguments == {<<>>, <<1>>}

PointArguments == {<<>>, <<10>>, <<15>>}

\* Rows of a table that was filled before: points below, at and above 0.
StoredKeys == [number : {0, 1}, point : {-5, 0, 10}]

\* One caller: every call of add_cue returns before the next one starts.
Callers == {1}

\* The points delete_cue and update_cue are asked for: those of the table, and
\* one no cue is at.
PointsAsked == {stored_cues[k].point : k \in 1..Len(stored_cues)} \cup {-1}

\* The numbers update_cue is asked to set.
NumbersSet == {0, 1}

NextStore ==
    \E caller \in Callers :
        \/ \E number \in NumberArguments : \E point \in PointArguments :
               AddCueRead(caller, number, point)
        \/ AddCueInsert(caller)
        \/ AddCueRefused(caller)
        \/ \E point \in PointsAsked : DeleteCueRead(caller, point)
        \/ DeleteCueWrite(caller)
        \/ \E point \in PointsAsked : \E number \in NumbersSet :
               UpdateCueRead(caller, point, number)
        \/ UpdateCueWrite(caller)
        \/ UpdateCueRaises(caller)

\* A cues table, new (created with the key of models.Cue) or opened from a file
\* (no key constraint), and no run of generate_dca_cues.
InitStore ==
    /\ stored_cues \in SeqsUpTo(StoredKeys, MaxStored)
    /\ has_primary_key \in BOOLEAN
    /\ has_primary_key =>
           \A j \in 1..Len(stored_cues) : \A k \in 1..Len(stored_cues) :
               j # k => stored_cues[j] # stored_cues[k]
    /\ add_cue_calls = [c \in {} |-> 0]
    /\ edit_calls = [c \in {} |-> 0]
    /\ returned = <<>>
    /\ script = <<>>
    /\ character_channels = ChannelMapOne
    /\ max_dialogues_ahead = DefaultWindow
    /\ InitAllocator

\* A sequential series of calls of add_cue and of nothing else: one caller, each
\* call returning before the next one starts.
NextStoreSeries ==
    \E caller \in Callers :
        \/ \E number \in NumberArguments : \E point \in PointArguments :
               AddCueRead(caller, number, point)
        \/ AddCueInsert(caller)
        \/ AddCueRefused(caller)

\* Two callers of add_cue at the same time, neither passing number or point.
ConcurrentCallers == {1, 2}

NextStoreConcurrent ==
    \E caller \in ConcurrentCallers :
        \/ AddCueRead(caller, <<>>, <<>>)
        \/ AddCueInsert(caller)
        \/ AddCueRefused(caller)
        \/ \E point \in PointsAsked : DeleteCueRead(caller, point)
        \/ DeleteCueWrite(caller)
        \/ \E point \in PointsAsked : \E number \in NumbersSet :
               UpdateCueRead(caller, point, number)
        \/ UpdateCueWrite(caller)
        \/ UpdateCueRaises(caller)

InitLong ==
    /\ script \in SeqsUpTo(LongElements, MaxLongLen)
    /\ character_channels \in ChannelMaps
    /\ max_dialogues_ahead \in 1..MaxWindow
    /\ InitAllocator
    /\ NoStore

InitOdd ==
    /\ script \in SeqsUpTo(OddElements, MaxOddLen)
    /\ character_channels = ChannelMapOne
    /\ max_dialogues_ahead = DefaultWindow
    /\ InitAllocator
    /\ NoStore

Spec == Init /\ [][Next]_vars

SpecOdd == InitOdd /\ [][Next]_vars

SpecStoreSeries == InitStore /\ [][NextStoreSeries]_vars

SpecStoreConcurrent == InitStore /\ [][NextStoreConcurrent]_vars

SpecLong == InitLong /\ [][Next]_vars

SpecStore == InitStore /\ [][NextStore]_vars

SpecScenario == InitScenario /\ [][Next]_vars

SpecWide == InitWide /\ [][Next]_vars

-----------------------------------------------------------------------------
(* Properties of the allocator state *)

\* The DCAs bound to an active character.
AssignedSlots == {dca_assignments[c] : c \in DOMAIN dca_assignments}

\* C1: slot uniqueness. After every processed element (so at every emitted cue)
\* no two distinct active characters are bound to the same DCA, headings that name
\* several characters included.
SlotUniqueness ==
    \A c1 \in active_mics : \A c2 \in active_mics :
        c1 # c2 => dca_assignments[c1] # dca_assignments[c2]

\* C7: slot partition. After every processed element each DCA 1..12 is in exactly
\* one of available_dcas and the DCAs assigned to active characters.
SlotPartition ==
    \A d \in DCAs : (d \in available_dcas) # (d \in AssignedSlots)

\* C8: pool bound. At every point of the walk at most 12 characters are active.
PoolBound == Cardinality(active_mics) <= NumDCAs

\* C10: the assignment can be read back from the labels of the cue emitted last:
\* a DCA carries a character's name exactly when that character is active and
\* bound to it, and a DCA bound to no active character has no label.
AssignmentReadBack ==
    cues # <<>> =>
        LET cue == cues[Len(cues)]
        IN  /\ \A c \in active_mics : cue.labels[dca_assignments[c]] = c
            /\ \A d \in DCAs :
                   cue.labels[d] # None =>
                       /\ cue.labels[d] \in active_mics
                       /\ dca_assignments[cue.labels[d]] = d

-----------------------------------------------------------------------------
(* Scene boundaries *)

AtSceneHeading == Running /\ script[i].element_type = "Scene Heading"

AtCharacter == Running /\ script[i].element_type = "Character"

\* C2: scene-boundary kill. When a Scene Heading is processed, every active
\* character that is not among the names of the first Character heading after the
\* boundary (before any further Scene Heading) is muted by the one cue emitted
\* there: the cue clears the label of its DCA, the DCA is released and the
\* character leaves the active set, however soon it speaks again.
SceneBoundaryKill ==
    [][AtSceneHeading =>
          \A X \in active_mics :
              X \notin FirstSpeakers(SubSeq(script, i + 1, Len(script))) =>
                  /\ Len(cues') = Len(cues) + 1
                  /\ cues'[Len(cues')].labels[dca_assignments[X]] = None
                  /\ dca_assignments[X] \in available_dcas'
                  /\ X \notin active_mics'
                  /\ X \notin DOMAIN dca_assignments']_vars

\* C2 witness: Al is active at the boundary, Bo speaks first in the next scene and
\* Al is the very next heading after Bo; the boundary has muted Al all the same.
SceneBoundaryKillWitness ==
    /\ script = <<CharacterElement(HeadingAl), SceneElement, CharacterElement(HeadingBo),
                  CharacterElement(HeadingAl)>>
    /\ i = 3
    /\ Len(cues) = 2
    /\ NameAl \notin active_mics
    /\ available_dcas = DCAs

-----------------------------------------------------------------------------
(* The lookahead window *)

\* The place of character's next Character heading among the Character headings
\* of elements (1 for the first heading, 2 for the second, ...), a heading being
\* the character's when split_characters lists the character among its names;
\* 0 when no heading is the character's or a Scene Heading comes before it.
NextHeadingOffset(elements, character) ==
    LET own == {k \in 1..Len(elements) :
                   /\ elements[k].element_type = "Character"
                   /\ character \in Range(split_characters(elements[k].element_text))}
    IN  IF own = {} THEN 0
        ELSE LET first == CHOOSE a \in own : \A b \in own : a <= b
             IN  IF \E k \in 1..first : elements[k].element_type = "Scene Heading"
                 THEN 0
                 ELSE Cardinality({k \in 1..first :
                                      elements[k].element_type = "Character"})

\* The names of the heading at element i as the mute pass compares them.
CurrentlySpeaking == {Strip(c) : c \in Range(split_characters(script[i].element_text))}

\* What the walk does at the character heading at element i with the active,
\* non-speaking characters whose next heading is the muted-th, and with those whose
\* next heading is the kept-th, heading after it.
WindowEdge(muted, kept) ==
    AtCharacter =>
        LET remaining_script == SubSeq(script, i + 1, Len(script))
        IN  \A Y \in active_mics \ CurrentlySpeaking :
                /\ NextHeadingOffset(remaining_script, Y) = muted =>
                       /\ ~speaks_within(remaining_script, Y, max_dialogues_ahead, FALSE)
                       /\ Y \notin active_mics'
                /\ (kept >= 1 /\ NextHeadingOffset(remaining_script, Y) = kept) =>
                       /\ speaks_within(remaining_script, Y, max_dialogues_ahead, FALSE)
                       /\ Y \in active_mics'

\* C3 as stated: with window w and no intervening Scene Heading, an active
\* non-speaking character whose next heading is the w-th heading after the current
\* one is not live and is muted at the current heading; one whose next heading is
\* the (w-1)-th is live and stays unmuted.
WindowRespectingAsStated ==
    [][WindowEdge(max_dialogues_ahead, max_dialogues_ahead - 1)]_vars

\* C3 as amended: the w-th heading after the current one is still inside the
\* window. An active non-speaking character whose next heading is the (w+1)-th is
\* not live and is muted at the current heading; one whose next heading is the
\* w-th is live and stays unmuted.
WindowRespecting ==
    [][WindowEdge(max_dialogues_ahead + 1, max_dialogues_ahead)]_vars

\* C3 witness: window 1; Al has spoken, the walk has processed the first Bo heading
\* and Al's next heading is the second one after it: Al has been muted there.
WindowRespectingWitness ==
    /\ script = <<CharacterElement(HeadingAl), CharacterElement(HeadingBo),
                  CharacterElement(HeadingBo), CharacterElement(HeadingAl)>>
    /\ max_dialogues_ahead = 1
    /\ i = 3
    /\ NameAl \notin active_mics
    /\ NameBo \in active_mics
    /\ Len(cues) = 2

-----------------------------------------------------------------------------
(* The A, B, A scenario *)

\* The cue names of the scenario: p0 +Al: "hi", p0 +Bo: "hi", p0 -Bo: "hi" and
\* p0 -Al- Scene Change - hi.
NameUnmuteAl == <<"p", "0", " ", "+", "A", "l", ":", " ", "\"", "h", "i", "\"">>

NameUnmuteBo == <<"p", "0", " ", "+", "B", "o", ":", " ", "\"", "h", "i", "\"">>

NameMuteBo == <<"p", "0", " ", "-", "B", "o", ":", " ", "\"", "h", "i", "\"">>

NameSceneMuteAl ==
    <<"p", "0", " ", "-", "A", "l", "-", " ", "S", "c", "e", "n", "e", " ", "C", "h",
      "a", "n", "g", "e", " ", "-", " ", "h", "i">>

IsScenarioABA == script = ScenarioABA /\ max_dialogues_ahead = DefaultWindow

\* The first two cues of the scenario: A unmuted on DCA 1, then B unmuted on DCA 2
\* while A stays active.
ScenarioFirstTwoCues ==
    /\ (i >= 2 =>
           /\ Len(cues) >= 1
           /\ cues[1].name = NameUnmuteAl
           /\ cues[1].labels[1] = NameAl)
    /\ (i \in 2..3 => Len(cues) = 1 /\ active_mics = {NameAl})
    /\ (i >= 4 =>
           /\ Len(cues) >= 2
           /\ cues[2].name = NameUnmuteBo
           /\ cues[2].labels[1] = NameAl
           /\ cues[2].labels[2] = NameBo)
    /\ (i \in 4..5 => Len(cues) = 2 /\ active_mics = {NameAl, NameBo})

\* C4 as stated: for A, Dialogue, B, Dialogue, A, Dialogue with window 7 the walk
\* unmutes A, then unmutes B while A stays active, emits no cue at A's second
\* heading, B being still active there, and ends with exactly 2 cues.
ScenarioTwoCuesAsStated ==
    IsScenarioABA =>
        /\ ScenarioFirstTwoCues
        /\ (i >= 6 => Len(cues) = 2 /\ active_mics = {NameAl, NameBo})

\* C4 as amended: the walk unmutes A, then unmutes B while A stays active, and at
\* A's second heading emits a third cue that mutes B, which does not speak in what
\* is left of the script; it ends with exactly 3 cues.
ScenarioThreeCues ==
    IsScenarioABA =>
        /\ ScenarioFirstTwoCues
        /\ (i >= 6 =>
               /\ Len(cues) = 3
               /\ cues[3].name = NameMuteBo
               /\ cues[3].labels[1] = NameAl
               /\ cues[3].labels[2] = None
               /\ cues[3].channels[2] = None
               /\ active_mics = {NameAl}
               /\ available_dcas = DCAs \ {1})

\* C4 witness: the scenario has been walked to its end and three cues are out.
ScenarioThreeCuesWitness ==
    /\ IsScenarioABA
    /\ ~Running
    /\ Len(cues) = 3
    /\ cue_number = 4

\* The walk is at a Scene Heading that immediately follows the A, B, A sequence,
\* and neither A nor B is named in the first Character heading of the next scene.
AtSceneAfterABA ==
    /\ Len(script) > Len(ScenarioABA)
    /\ SubSeq(script, 1, Len(ScenarioABA)) = ScenarioABA
    /\ max_dialogues_ahead = DefaultWindow
    /\ i = Len(ScenarioABA) + 1
    /\ AtSceneHeading
    /\ FirstSpeakers(SubSeq(script, i + 1, Len(script))) \cap {NameAl, NameBo} = {}

\* C5 as stated: processing that Scene Heading emits exactly one cue, which mutes
\* both A and B and returns both of their DCAs to the free pool.
SceneAfterABAMutesBothAsStated ==
    [][AtSceneAfterABA =>
          /\ Len(cues') = Len(cues) + 1
          /\ {NameAl, NameBo} \subseteq active_mics
          /\ active_mics' \cap {NameAl, NameBo} = {}
          /\ {1, 2} \subseteq available_dcas']_vars

\* C5 as amended: processing that Scene Heading emits exactly one cue, which mutes
\* A alone, B having been muted by the cue of A's second heading; after it no
\* character is active and the DCAs of A and B are both in the free pool.
SceneAfterABAMutesA ==
    [][AtSceneAfterABA =>
          /\ active_mics = {NameAl}
          /\ 2 \in available_dcas
          /\ Len(cues') = Len(cues) + 1
          /\ cues'[Len(cues')].name = NameSceneMuteAl
          /\ \A d \in DCAs : /\ cues'[Len(cues')].labels[d] = None
                             /\ cues'[Len(cues')].channels[d] = None
          /\ active_mics' = {}
          /\ available_dcas' = DCAs]_vars

\* C5 witness: the Scene Heading after A, B, A has been processed, with C or nobody
\* speaking first in the next scene; its cue is the fourth and every DCA is free.
SceneAfterABAWitness ==
    /\ Len(script) > Len(ScenarioABA)
    /\ SubSeq(script, 1, Len(ScenarioABA)) = ScenarioABA
    /\ script[Len(ScenarioABA) + 1] = SceneElement
    /\ i = Len(ScenarioABA) + 2
    /\ Len(cues) = 4
    /\ cues[4].name = NameSceneMuteAl
    /\ active_mics = {}
    /\ available_dcas = DCAs

-----------------------------------------------------------------------------
(* Cue contents *)

\* C6: determinism. Two runs on the same script and channel map that have emitted
\* the same cues so far append the same cue at the next character heading (cue
\* number, name with its +name and -name tokens in order, 12 channels, 12 labels),
\* whatever order the mute pass of each run meets the active characters in. The
\* other steps of the walk take no such order, so the cue lists of the two runs are
\* then identical.
Determinism ==
    AtCharacter =>
        \A first \in Orderings(ToMute) : \A second \in Orderings(ToMute) :
            CharacterOutcome(first).cue = CharacterOutcome(second).cue

\* C9: snapshot completeness. The 12 channel values and 12 label values of the
\* cue emitted last equal the running snapshot current_dca_state; the snapshot
\* changes only in a step that emits a cue, so each cue equals the snapshot as it
\* stood right after the step that emitted it, and a DCA that step did not write
\* carries the value of the cue before.
SnapshotCompleteness ==
    IF cues = <<>>
    THEN \A d \in DCAs : /\ current_dca_state.channels[d] = None
                         /\ current_dca_state.labels[d] = None
    ELSE /\ cues[Len(cues)].channels = current_dca_state.channels
         /\ cues[Len(cues)].labels = current_dca_state.labels

\* C9 witness: the second cue unmutes a character on DCA 2 and still carries the
\* channel and label the first cue put on DCA 1.
SnapshotCompletenessWitness ==
    /\ Len(cues) = 2
    /\ cues[1].labels[1] = NameAl
    /\ cues[1].channels[1] = <<"1">>
    /\ cues[2].labels[1] = NameAl
    /\ cues[2].channels[1] = <<"1">>
    /\ cues[2].labels[2] # None
    /\ cues[1].labels[2] = None
    /\ current_dca_state.labels[1] = NameAl

-----------------------------------------------------------------------------
(* Allocation at a character heading *)

\* The names of the heading at element i as the unmute pass reads them: stripped
\* and cut to 12 characters.
HeadingKeys ==
    LET characters == split_characters(script[i].element_text)
    IN  [k \in 1..Len(characters) |-> Prefix(Strip(characters[k]), LabelLimit)]

\* The places of the heading at element i whose name is not active and is not
\* named earlier in the same heading.
NewPlaces ==
    LET keys == HeadingKeys
    IN  {k \in 1..Len(keys) :
            /\ keys[k] \notin active_mics
            /\ \A j \in 1..(k - 1) : keys[j] # keys[k]}

\* C11: lowest free slot. Whenever a character that is not active is unmuted at a
\* Character heading and at least one DCA is free, it is bound to the numerically
\* smallest free DCA; the characters of one multi-name heading are bound in
\* heading order, each to the smallest DCA still free after the ones before it.
\* The binding is read off the unmute pass, and off the state after the step for
\* every character that the mute pass of the same heading leaves active.
LowestFreeSlot ==
    [][AtCharacter =>
          LET keys == HeadingKeys
              bound == Allocated.assignments
          IN  \A k \in NewPlaces :
                  LET taken == {bound[keys[j]] : j \in {n \in NewPlaces : n < k}}
                      free == available_dcas \ taken
                  IN  free # {} =>
                          /\ keys[k] \in DOMAIN bound
                          /\ bound[keys[k]] \in free
                          /\ \A d \in free : bound[keys[k]] <= d
                          /\ keys[k] \in active_mics' =>
                                 dca_assignments'[keys[k]] = bound[keys[k]]]_vars

\* C11 witness: window 1, headings AL, BO, BO, CY. Al was muted at the first BO
\* heading, which freed DCA 1 below Bo's DCA 2; Cy has then taken DCA 1, the
\* smallest of the free DCAs 1, 3, ..., 12.
LowestFreeSlotWitness ==
    /\ script = <<CharacterElement(HeadingAl), CharacterElement(HeadingBo),
                  CharacterElement(HeadingBo), CharacterElement(HeadingCy)>>
    /\ max_dialogues_ahead = 1
    /\ i = 5
    /\ <<"C", "y">> \in active_mics
    /\ dca_assignments[<<"C", "y">>] = 1
    /\ cues[2].labels[2] = NameBo
    /\ cues[2].labels[1] = None

-----------------------------------------------------------------------------
(* Pool exhaustion *)

\* return cues: what the caller of generate_dca_cues gets.
ReturnValue == cues

\* The entries of the returned list that are no Cue: a warning or an anomaly
\* record handed back alongside the cues would be one.
Diagnostics == {r \in Range(ReturnValue) : DOMAIN r # DOMAIN NewCue(0, <<>>)}

\* The heading at element i names more characters that are not active than there
\* are free DCAs.
Exhausting == AtCharacter /\ Cardinality(NewPlaces) > Cardinality(available_dcas)

\* C12: pool exhaustion is reported. When a character must be unmuted and no DCA
\* is free, the character is bound to DCA 1 whatever its occupant, the walk goes
\* on to the next element, and the event is recorded as a warning that the caller
\* of generate_dca_cues gets alongside the cue list.
PoolExhaustionReported ==
    [][Exhausting =>
          /\ \E c \in active_mics' \ active_mics : dca_assignments'[c] = 1
          /\ i' = i + 1
          /\ Len(cues') = Len(cues) + 1
          /\ Diagnostics' # {}]_vars

-----------------------------------------------------------------------------
(* Characters without a channel *)

\* character_channels has no entry, or an empty entry, for the character.
LookupMiss(character) == ~Truthy(Get(character_channels, character, <<>>))

\* C13: lookup miss. A character with no entry, or an empty entry, in the channel
\* map that is unmuted at a Character heading is still added to the active set and
\* bound to a DCA, the cue carries its name as the label of that DCA and no
\* channel (the channel of that DCA is empty in the cue); when it is muted later,
\* the cue clears the label and the DCA returns to the free pool.
LookupMissLabelOnly ==
    [][/\ AtCharacter =>
              LET keys == HeadingKeys
              IN  \A k \in NewPlaces :
                      LookupMiss(keys[k]) =>
                          /\ keys[k] \in active_mics'
                          /\ keys[k] \in DOMAIN dca_assignments'
                          /\ Len(cues') = Len(cues) + 1
                          /\ cues'[Len(cues')].labels[dca_assignments'[keys[k]]] = keys[k]
                          /\ cues'[Len(cues')].channels[dca_assignments'[keys[k]]] = None
       /\ \A c \in active_mics \ active_mics' :
              LookupMiss(c) =>
                  /\ Len(cues') = Len(cues) + 1
                  /\ cues'[Len(cues')].labels[dca_assignments[c]] = None
                  /\ dca_assignments[c] \in available_dcas']_vars

-----------------------------------------------------------------------------
(* The cue list *)

\* C14: cue immutability. Once a cue has been appended to the output list no later
\* step of the walk changes any of its fields, and the list only grows by
\* appending: the list before a step is a prefix of the list after it.
CueImmutability ==
    [][/\ Len(cues') >= Len(cues)
       /\ SubSeq(cues', 1, Len(cues)) = cues]_vars

\* C14 witness: three cues are out; the third has cleared the DCA 2 that the second
\* labelled, and the first and the second still read as they were emitted.
CueImmutabilityWitness ==
    /\ Len(cues) = 3
    /\ cues[1].number = 1
    /\ cues[1].labels[1] = NameAl
    /\ cues[1].labels[2] = None
    /\ cues[2].number = 2
    /\ cues[2].labels[2] = NameBo
    /\ cues[3].labels[2] = None
    /\ current_dca_state.labels[2] = None

-----------------------------------------------------------------------------
(* The point the store assigns *)

\* C15: store-assigned point. A call of add_cue without a point stores the cue at
\* point = (largest point of any stored cue, or 0 when none) + 10 and returns that
\* point; so in any sequential series of such calls the returned points are
\* strictly increasing, and the (number, point) key of the new cue differs from
\* the key of every cue already stored.
StoreAssignedPoint ==
    [][\A caller \in DOMAIN add_cue_calls \ DOMAIN add_cue_calls' :
           ~add_cue_calls[caller].point_given =>
               LET points == {stored_cues[k].point : k \in 1..Len(stored_cues)}
                   largest == IF points = {} THEN 0
                              ELSE CHOOSE p \in points : \A q \in points : q <= p
                   stored == stored_cues'[Len(stored_cues')]
               IN  /\ Len(stored_cues') = Len(stored_cues) + 1
                   /\ SubSeq(stored_cues', 1, Len(stored_cues)) = stored_cues
                   /\ stored.point = largest + 10
                   /\ returned' = Append(returned, [point |-> largest + 10,
                                                    point_given |-> FALSE])
                   /\ \A k \in 1..Len(stored_cues) : stored_cues[k] # stored
                   /\ \A k \in 1..Len(returned) :
                          ~returned[k].point_given => returned[k].point < largest + 10]_vars

\* C15 witness: the table held one cue, at point -5; two calls without a number
\* and a point have returned 5 and then 15, and the three rows have three keys.
StoreAssignedPointWitness ==
    /\ stored_cues = <<[number |-> 1, point |-> -5], [number |-> 1, point |-> 5],
                       [number |-> 1, point |-> 15]>>
    /\ returned = <<[point |-> 5, point_given |-> FALSE],
                    [point |-> 15, point_given |-> FALSE]>>
    /\ add_cue_calls = <<>>
    /\ edit_calls = <<>>

-----------------------------------------------------------------------------
(* The mute pass *)

\* C16: speaking characters are never muted at their own heading. For names of
\* any length, a character named in the Character heading being processed is not
\* put on that heading's mute list, so no cue both unmutes and mutes the same
\* character, and every character named in the heading is active after the
\* heading is processed.
SpeakersStayActive ==
    [][AtCharacter =>
          LET keys == HeadingKeys
          IN  \A k \in 1..Len(keys) :
                  /\ keys[k] \notin ToMute
                  /\ keys[k] \in active_mics'
                  /\ keys[k] \in DOMAIN dca_assignments']_vars


\* The names of a Character heading as the unmute pass and the labels have them.
NamesOf(element) ==
    {Prefix(Strip(c), LabelLimit) : c \in Range(split_characters(element.element_text))}

\* The character is named in one of the first n Character headings of elements,
\* with no Scene Heading before that heading.
NamedWithin(elements, character, n) ==
    \E k \in 1..Len(elements) :
        /\ elements[k].element_type = "Character"
        /\ character \in NamesOf(elements[k])
        /\ Cardinality({j \in 1..k : elements[j].element_type = "Character"}) <= n
        /\ \A j \in 1..k : elements[j].element_type # "Scene Heading"

\* C17: mute exactly when not live. After a Character heading is processed, a
\* character that was active before it and is not named in it is still active if
\* and only if it is named in one of the next `window` Character headings after
\* the current one, with no Scene Heading before that heading; otherwise this
\* heading's cue has muted it.
MuteExactlyWhenNotLive ==
    [][AtCharacter =>
          \A X \in active_mics \ NamesOf(script[i]) :
              IF NamedWithin(SubSeq(script, i + 1, Len(script)), X, max_dialogues_ahead)
              THEN X \in active_mics'
              ELSE /\ X \notin active_mics'
                   /\ Len(cues') = Len(cues) + 1
                   /\ cues'[Len(cues')].labels[dca_assignments[X]] = None]_vars

-----------------------------------------------------------------------------
(* speaks_within as a function *)

\* The names speaks_within is asked about: the names of the scripts as
\* split_characters returns them, and the long one as cut to a DCA label, which
\* no heading has.
AskedNames == {NameAl, Title(HeadingLong), Prefix(Title(HeadingLong), LabelLimit)}

\* The windows speaks_within is asked about.
AskedWindows == 0..(MaxWindow + 1) \cup {DefaultWindow}

\* C18: speaks_within(book, character, n, skip_first=False) is true if and only
\* if character is one of the names split_characters returns for some Character
\* heading of book that is among the first n Character headings of book and has
\* no Scene Heading before it; so it is false at the first Scene Heading, false
\* after n headings without a match and false when book ends without a match.
\* Checked for every book the walk passes to it: what is left of the script.
SpeaksWithinMeaning ==
    LET book == SubSeq(script, i + 1, Len(script))
        names == [k \in 1..Len(book) |->
                     IF book[k].element_type = "Character"
                     THEN Range(split_characters(book[k].element_text)) ELSE {}]
    IN  \A character \in AskedNames : \A n \in AskedWindows :
            speaks_within(book, character, n, FALSE)
            <=> \E k \in 1..Len(book) :
                    /\ book[k].element_type = "Character"
                    /\ character \in names[k]
                    /\ Cardinality({j \in 1..k :
                                       book[j].element_type = "Character"}) <= n
                    /\ \A j \in 1..k : book[j].element_type # "Scene Heading"

\* C18 witness: headings AL, ALONGCHARACTERNAME, AL with window 1. At the second
\* heading the book was the last heading alone, which names Al and is the first
\* heading of the book: Al has stayed active. For the book of the last two
\* headings Al's heading is the second, inside a window of 2 and outside a window
\* of 1.
SpeaksWithinMeaningWitness ==
    /\ script = <<CharacterElement(HeadingAl), CharacterElement(HeadingLong),
                  CharacterElement(HeadingAl)>>
    /\ max_dialogues_ahead = 1
    /\ i = 3
    /\ NameAl \in active_mics
    /\ speaks_within(SubSeq(script, 3, 3), NameAl, 1, FALSE)
    /\ speaks_within(SubSeq(script, 2, 3), NameAl, 2, FALSE)
    /\ ~speaks_within(SubSeq(script, 2, 3), NameAl, 1, FALSE)

-----------------------------------------------------------------------------
(* One cue per decision point *)

\* The cues a step appends.
Appended == Len(cues') - Len(cues)

\* C19: one cue per decision point. Processing one Scene Heading or one Character
\* element appends at most one cue. A Character heading appends exactly one cue
\* when its unmute list or its mute list is non-empty and none when both are
\* empty; a Scene Heading appends exactly one cue when active minus first_speakers
\* is non-empty and none when it is empty.
OneCuePerDecisionPoint ==
    [][/\ AtCharacter =>
              Appended = IF NewPlaces # {} \/ ToMute # {} THEN 1 ELSE 0
       /\ AtSceneHeading =>
              Appended = IF active_mics
                             \ FirstSpeakers(SubSeq(script, i + 1, Len(script))) # {}
                         THEN 1 ELSE 0]_vars

\* C19 witness: the headings AL, AL and a Scene Heading have been processed. The
\* first heading unmuted Al in one cue, the second unmuted nobody and muted nobody
\* and emitted none, and the Scene Heading muted Al in one cue: two cues for three
\* decision points.
OneCuePerDecisionPointWitness ==
    /\ Len(script) = 3
    /\ script[1] = CharacterElement(HeadingAl)
    /\ script[2] = CharacterElement(HeadingAl)
    /\ script[3] = SceneElement
    /\ i = 4
    /\ Len(cues) = 2
    /\ cues[1].name[4] = "+"
    /\ cues[2].name[4] = "-"
    /\ active_mics = {}

-----------------------------------------------------------------------------
(* The first speaker of a scene *)

\* The stripped names of a Character heading.
SpeakersOf(element) ==
    {Strip(c) : c \in Range(split_characters(element.element_text))}

\* Element k is the first Character heading of the scene that the Scene Heading
\* at element s opens.
FirstHeadingOfScene(s, k) ==
    /\ s \in 1..Len(script)
    /\ k \in (s + 1)..Len(script)
    /\ script[s].element_type = "Scene Heading"
    /\ script[k].element_type = "Character"
    /\ \A j \in (s + 1)..(k - 1) :
           script[j].element_type \notin {"Character", "Scene Heading"}

\* The step leaves the character active on its DCA, and the DCA with the channel
\* and label it had, in the running snapshot and in the cue if the step emits one.
KeepsSlot(X) ==
    /\ X \in active_mics'
    /\ dca_assignments'[X] = dca_assignments[X]
    /\ current_dca_state'.labels[dca_assignments[X]]
           = current_dca_state.labels[dca_assignments[X]]
    /\ current_dca_state'.channels[dca_assignments[X]]
           = current_dca_state.channels[dca_assignments[X]]
    /\ Len(cues') > Len(cues) =>
           /\ cues'[Len(cues')].labels[dca_assignments[X]]
                  = current_dca_state.labels[dca_assignments[X]]
           /\ cues'[Len(cues')].channels[dca_assignments[X]]
                  = current_dca_state.channels[dca_assignments[X]]

\* C20: the first speaker survives the boundary. A character that is active when
\* a Scene Heading is processed and is named in the first Character heading of the
\* next scene is not muted by the boundary and keeps its DCA with the same channel
\* and label across it; it is still active when that first heading is processed
\* and is not unmuted again there.
FirstSpeakerSurvives ==
    [][/\ AtSceneHeading =>
              \A k \in (i + 1)..Len(script) :
                  FirstHeadingOfScene(i, k) =>
                      \A X \in active_mics \cap SpeakersOf(script[k]) : KeepsSlot(X)
       /\ AtCharacter =>
              \A s \in 1..(i - 1) :
                  FirstHeadingOfScene(s, i) =>
                      \A X \in active_mics \cap SpeakersOf(script[i]) :
                          /\ KeepsSlot(X)
                          /\ X \notin {HeadingKeys[k] : k \in NewPlaces}]_vars

-----------------------------------------------------------------------------
(* Cue numbers *)

\* C21: cue numbering. The cues generate_dca_cues has emitted are numbered
\* 1, 2, ..., k in list order with no gap and no repeat, the counter being one
\* ahead of the number of cues (it advances only when a cue is appended), and
\* every cue has point 0; so the cues have pairwise distinct (number, point) keys.
CueNumbering ==
    /\ cue_number = Len(cues) + 1
    /\ \A k \in 1..Len(cues) : cues[k].number = k /\ cues[k].point = 0
    /\ \A j \in 1..Len(cues) : \A k \in 1..Len(cues) :
           j # k => <<cues[j].number, cues[j].point>> # <<cues[k].number, cues[k].point>>

\* C21 witness: the A, B, A scenario followed by a page marker and a Scene
\* Heading has been walked to its end: steps that emit no cue lie between the
\* four cues, which are numbered 1 to 4 at point 0.
CueNumberingWitness ==
    /\ script = ScenarioABA \o <<PageElement, SceneElement>>
    /\ ~Running
    /\ Len(cues) = 4
    /\ cues[4].number = 4
    /\ cues[4].point = 0
    /\ cues[3].number = 3
    /\ cue_number = 5

-----------------------------------------------------------------------------
(* Comment and Dialogue elements *)

\* The walk is at a Comment or a Dialogue element.
AtInert == Running /\ script[i].element_type \in {"Comment", "Dialogue"}

\* The text is 'Page ' followed by one or more digits and nothing else.
ExactPageText(text) ==
    /\ Len(text) > Len(PagePrefix)
    /\ SubSeq(text, 1, Len(PagePrefix)) = PagePrefix
    /\ \A k \in (Len(PagePrefix) + 1)..Len(text) : IsDigit(text[k])

\* The text without the newline it ends with, if it ends with one.
WithoutFinalNewline(text) ==
    IF text # <<>> /\ text[Len(text)] = "\n" THEN SubSeq(text, 1, Len(text) - 1)
    ELSE text

\* The step appends no cue and leaves the allocator alone.
LeavesAllocatorAlone ==
    /\ cues' = cues
    /\ active_mics' = active_mics
    /\ dca_assignments' = dca_assignments
    /\ available_dcas' = available_dcas
    /\ current_dca_state' = current_dca_state
    /\ cue_number' = cue_number
    /\ i' = i + 1

\* C22: processing a Comment (page marker or not) or a Dialogue element
\* appends no cue and leaves the active set, the assignment, the free DCAs, the
\* running snapshot and the cue counter unchanged; only a Comment whose text is
\* exactly 'Page <integer>' changes anything, and it changes only the page.
InertElementsAsStated ==
    [][AtInert =>
          /\ LeavesAllocatorAlone
          /\ page' # page =>
                 /\ script[i].element_type = "Comment"
                 /\ ExactPageText(script[i].element_text)]_vars

\* What the code does at these elements (C22, with the newline the pattern's
\* '$' lets through): processing a Comment or a Dialogue element appends no cue and
\* leaves the active set, the assignment, the free DCAs, the running snapshot and
\* the cue counter unchanged. A Comment whose text is 'Page <digits>', or
\* 'Page <digits>' followed by one newline, sets the page to that integer; no
\* other Comment and no Dialogue changes anything.
InertElements ==
    [][AtInert =>
          LET text == WithoutFinalNewline(script[i].element_text)
          IN  /\ LeavesAllocatorAlone
              /\ page' = IF /\ script[i].element_type = "Comment"
                            /\ ExactPageText(text)
                         THEN IntOf(SubSeq(text, Len(PagePrefix) + 1, Len(text)))
                         ELSE page]_vars

\* The case that separates the two (C22): a Comment 'Page 12' with a newline after the digits has been
\* processed: the page is 12 and nothing else has changed.
InertElementsWitness ==
    /\ Len(script) >= 1
    /\ script[1] = PageNewlineElement
    /\ i = 2
    /\ page = 12
    /\ cues = <<>>
    /\ active_mics = {}
    /\ cue_number = 1

-----------------------------------------------------------------------------
(* Headings without a name *)

\* Nothing is left of the heading once its parentheticals and the surrounding
\* whitespace are removed.
NamelessHeading(text) == Strip(RemoveParens(text)) = <<>>

\* C23: split_characters returns an empty list when the heading is empty and
\* yields no name when the heading is only a parenthesized stage direction, so
\* such a heading never allocates a DCA to a character with the empty name.
NamelessHeadingAllocatesNothing ==
    /\ \A k \in 1..(i - 1) :
           /\ script[k].element_type = "Character"
           /\ NamelessHeading(script[k].element_text)
           => split_characters(script[k].element_text) = <<>>
    /\ <<>> \notin active_mics
    /\ <<>> \notin DOMAIN dca_assignments
    /\ \A k \in 1..Len(cues) : \A d \in DCAs : cues[k].labels[d] # <<>>

-----------------------------------------------------------------------------
(* Open channels *)

\* C24: in every emitted cue a DCA's channel value is non-empty only if the DCA
\* is bound to an active character whose channel mapping is exactly that value,
\* and every DCA in available_dcas has an empty channel and an empty label; also
\* when the pool is exhausted, with mapped and unmapped characters. Bindings
\* change only in steps that emit a cue, so the newest cue is compared with the
\* allocator as the step left it.
NoOrphanedChannel ==
    cues # <<>> =>
        LET cue == cues[Len(cues)]
        IN  \A d \in DCAs :
                /\ cue.channels[d] # None =>
                       \E character \in active_mics :
                           /\ dca_assignments[character] = d
                           /\ Get(character_channels, character, None) = cue.channels[d]
                /\ d \in available_dcas =>
                       cue.channels[d] = None /\ cue.labels[d] = None

-----------------------------------------------------------------------------
(* The state the walk ends in *)

\* The positions of the elements that change the active set.
DecisionPoints ==
    {k \in 1..Len(script) : script[k].element_type \in {"Character", "Scene Heading"}}

\* The names of a Character heading, as the walk keys them.
KeysOf(element) ==
    {Prefix(Strip(c), LabelLimit) : c \in Range(split_characters(element.element_text))}

\* C25: when the whole element sequence has been processed, the active set is
\* the set of names of the last Character heading if no Scene Heading follows
\* that heading, and is empty if a Scene Heading follows it or the script has no
\* Character heading.
FinalActiveSet ==
    ~Running =>
        LET points == DecisionPoints
        IN  IF points = {}
            THEN active_mics = {}
            ELSE LET last == CHOOSE k \in points : \A j \in points : j <= k
                 IN  IF script[last].element_type = "Scene Heading"
                     THEN active_mics = {}
                     ELSE active_mics = KeysOf(script[last])

-----------------------------------------------------------------------------
(* Two callers of add_cue *)

\* C26: when two callers run add_cue without number and point at the same time,
\* the read of the maximum and the insert being separate transactions, they never
\* obtain the same (number, point) pair, so neither insert collides with the
\* other on the cue key: no two calls in progress hold the same pair, and no
\* call is about to insert a pair the table already holds.
ConcurrentCallsDistinct ==
    /\ \A a \in DOMAIN add_cue_calls : \A b \in DOMAIN add_cue_calls :
           a # b => KeyOf(add_cue_calls[a]) # KeyOf(add_cue_calls[b])
    /\ \A a \in DOMAIN add_cue_calls : KeyOf(add_cue_calls[a]) \notin Range(stored_cues)

====
